---- MODULE Spec2Model ----
(***************************************************************************)
(* Leadtime Order Sync plugin (src/plugin.py): the upload page, the CSV    *)
(* matcher and availability calculation, order creation with lot-level     *)
(* allocation, and the stock sync payload.                                 *)
(*                                                                         *)
(* Text (CSV cells, form fields) is a sequence of one-character strings so *)
(* that stripping, case folding and int() are computed, not assumed.       *)
(* Quantities are integers, as in the spec's data model.                   *)
(***************************************************************************)
EXTENDS Integers, Sequences, FiniteSets, TLC

VARIABLES
    session,    \* request.session["leadtime_order_sync_data"], or NoSession
    orders,     \* SalesOrder rows
    shipments,  \* SalesOrderShipment rows
    lines,      \* SalesOrderLineItem rows, in creation order
    allocs,     \* SalesOrderAllocation rows, in creation order
    nextOrder,  \* next SalesOrder primary key
    customer,   \* a Company named 'TakeALot' with is_customer exists
    setting,    \* the DEFAULT_STOCK_LOCATION setting
    co,         \* per worker: the position and locals of its create_order call
    request,    \* the request most recently received
    response    \* the response to it (NoResponse while it is being handled)

vars == <<session, orders, shipments, lines, allocs, nextOrder, customer,
          setting, co, request, response>>

(***************************************************************************)
(* Bounds                                                                  *)
(***************************************************************************)
\* Rows of an uploaded CSV, and create_order calls, with requests one at a time
MaxRows == 2
MaxOrders == 2
\* The same, with two workers at once
MaxConcRows == 1
MaxConcOrders == 2
\* Quantity other orders may hold of a lot at the start
MaxForeign == 2

(***************************************************************************)
(* Text helpers                                                            *)
(***************************************************************************)
Max(a, b) == IF a > b THEN a ELSE b

Digits == <<"0", "1", "2", "3", "4", "5", "6", "7", "8", "9">>

IsDigit(c) == \E i \in 1..10 : Digits[i] = c

DigitVal(c) == (CHOOSE i \in 1..10 : Digits[i] = c) - 1

IsSpace(c) == c = " "

RECURSIVE LStrip(_)
LStrip(s) == IF s # <<>> /\ IsSpace(Head(s)) THEN LStrip(Tail(s)) ELSE s

RECURSIVE RStrip(_)
RStrip(s) ==
    IF s # <<>> /\ IsSpace(s[Len(s)]) THEN RStrip(SubSeq(s, 1, Len(s) - 1)) ELSE s

\* str.strip()
Strip(s) == RStrip(LStrip(s))

RECURSIVE LStripQuote(_)
LStripQuote(s) ==
    IF s # <<>> /\ Head(s) = "\"" THEN LStripQuote(Tail(s)) ELSE s

RECURSIVE RStripQuote(_)
RStripQuote(s) ==
    IF s # <<>> /\ s[Len(s)] = "\""
    THEN RStripQuote(SubSeq(s, 1, Len(s) - 1))
    ELSE s

Uppers == <<"K", "M", "N", "T", "Z", "Q">>
Lowers == <<"k", "m", "n", "t", "z", "q">>

LowerChar(c) ==
    IF \E i \in 1..Len(Uppers) : Uppers[i] = c
    THEN Lowers[CHOOSE i \in 1..Len(Uppers) : Uppers[i] = c]
    ELSE c

Lower(s) == [i \in 1..Len(s) |-> LowerChar(s[i])]

\* Django's __iexact lookup
IExact(a, b) == Lower(a) = Lower(b)

\* The digits of an int() literal: digits, single underscores between them.
RECURSIVE DigitsOk(_, _)
DigitsOk(s, afterDigit) ==
    IF s = <<>> THEN afterDigit
    ELSE IF IsDigit(Head(s)) THEN DigitsOk(Tail(s), TRUE)
    ELSE IF Head(s) = "_" THEN afterDigit /\ Tail(s) # <<>> /\ IsDigit(Tail(s)[1])
                               /\ DigitsOk(Tail(s), FALSE)
    ELSE FALSE

RECURSIVE DigitsVal(_, _)
DigitsVal(s, acc) ==
    IF s = <<>> THEN acc
    ELSE IF Head(s) = "_" THEN DigitsVal(Tail(s), acc)
    ELSE DigitsVal(Tail(s), 10 * acc + DigitVal(Head(s)))

\* Python's int(text): surrounding whitespace, an optional sign, digits.
\* ok = FALSE stands for ValueError.
PyInt(text) ==
    LET s == Strip(text)
        signed == s # <<>> /\ Head(s) \in {"-", "+"}
        body == IF signed THEN Tail(s) ELSE s
    IN  IF body # <<>> /\ DigitsOk(body, FALSE)
        THEN [ok |-> TRUE,
              val |-> IF signed /\ Head(s) = "-"
                      THEN 0 - DigitsVal(body, 0)
                      ELSE DigitsVal(body, 0)]
        ELSE [ok |-> FALSE, val |-> 0]

\* try: int(cell.strip() or 0) except Exception: 0
ParseQty(cell) ==
    IF Strip(cell) = <<>> THEN 0
    ELSE IF PyInt(Strip(cell)).ok THEN PyInt(Strip(cell)).val
    ELSE 0

(***************************************************************************)
(* The catalogue the plugin queries: parts, stock locations, stock items.  *)
(***************************************************************************)
Parts == {1, 2}

PartIPN(p) == IF p = 1 THEN <<"K">> ELSE <<"m">>

PartName(p) == IF p = 1 THEN <<"n">> ELSE <<"T">>

Locations == {1, 2}

Lots == {1, 2, 3}

LotPart(l) == 1

LotLocation(l) == IF l = 3 THEN 2 ELSE 1

LotQuantity(l) == IF l = 2 THEN 2 ELSE 1


\* StockItem.objects.filter(...) iterates in primary-key order.
RECURSIVE LotsUpTo(_, _)
LotsUpTo(n, keep) ==
    IF n = 0 THEN <<>>
    ELSE IF n \in keep THEN Append(LotsUpTo(n - 1, keep), n)
    ELSE LotsUpTo(n - 1, keep)

LotSeq(keep) == LotsUpTo(Cardinality(Lots), keep)

NoPart == 0

\* Part.objects.filter(IPN__iexact=sku).first()
PartByCode(sku) ==
    LET hit == {p \in Parts : IExact(PartIPN(p), sku)}
    IN  IF hit = {} THEN NoPart ELSE CHOOSE p \in hit : \A q \in hit : p <= q

\* Part.objects.filter(name__iexact=title).first()
PartByName(title) ==
    LET hit == {p \in Parts : IExact(PartName(p), title)}
    IN  IF hit = {} THEN NoPart ELSE CHOOSE p \in hit : \A q \in hit : p <= q

NoLocation == 0

\* StockLocation.objects.filter(pk=location_name).first() if location_name else None
LocationObj(name) == IF name \in Locations THEN name ELSE NoLocation

(***************************************************************************)
(* Persisted order records                                                 *)
(***************************************************************************)
\* The line that pre-existing commitments (other orders') hang on.
ForeignLine == <<0, 0>>

RECURSIVE SumQty(_)
SumQty(al) == IF al = <<>> THEN 0 ELSE Head(al).quantity + SumQty(Tail(al))

AllocOnLot(a, l) == a.item = l

\* sum(alloc.quantity for alloc in SalesOrderAllocation.objects.filter(item=stock_item))
Committed(al, l) == SumQty(SelectSeq(al, LAMBDA a : AllocOnLot(a, l)))

\* Mutant: the lot's existing allocations are not subtracted.
AvailableOf_IgnoresCommitted(l, pre_alloc) == LotQuantity(l)

\* available_qty = max(stock_item.quantity - pre_alloc, 0)
AvailableOf(l, pre_alloc) == Max(LotQuantity(l) - pre_alloc, 0)

\* StockItem.objects.filter(part=part_obj, quantity__gt=0)
InStockLots(part) == {l \in Lots : LotPart(l) = part /\ LotQuantity(l) > 0}

\* StockItem.objects.filter(part=part_obj, location=location_obj, quantity__gt=0)
LotsAt(part, loc) == {l \in InStockLots(part) : LotLocation(l) = loc}

RECURSIVE TotalQuantity(_)
TotalQuantity(S) ==
    IF S = {} THEN 0
    ELSE LET x == CHOOSE y \in S : TRUE
         IN  LotQuantity(x) + TotalQuantity(S \ {x})

RECURSIVE TotalCommitted(_, _)
TotalCommitted(al, S) ==
    IF S = {} THEN 0
    ELSE LET x == CHOOSE y \in S : TRUE
         IN  Committed(al, x) + TotalCommitted(al, S \ {x})

(***************************************************************************)
(* process_csv_rows                                                        *)
(***************************************************************************)
\* row.get("SKU", "").strip().lstrip('"').rstrip('"')
CleanSku(cell) == RStripQuote(LStripQuote(Strip(cell)))

\* row.get("Product Title", "").strip().strip('"')
CleanTitle(cell) == RStripQuote(LStripQuote(Strip(cell)))

\* part_obj: the code lookup, else the name lookup, and only for a non-empty SKU
MatchPart(sku, title) ==
    IF sku # <<>>
    THEN IF PartByCode(sku) # NoPart THEN PartByCode(sku) ELSE PartByName(title)
    ELSE NoPart

\* Mutant: the difference is not floored at 0.
AvailableQty_NoFloor(al, part) ==
    TotalQuantity(InStockLots(part)) - TotalCommitted(al, InStockLots(part))

\* total_qty - pre_alloc over the part's in-stock lots, floored at 0
AvailableQty(al, part) ==
    LET total == TotalQuantity(InStockLots(part))
        pre == TotalCommitted(al, InStockLots(part))
    IN  Max(total - pre, 0)

\* new_soh
CalculatedSoh(available, qty_sending) == Max(available - qty_sending, 0)

MatchedItem(al, row) ==
    LET sku == CleanSku(row.SKU)
        part == MatchPart(sku, CleanTitle(row.Title))
        qs == ParseQty(row.QtySending)
    IN  [part |-> part, sku |-> sku, tsin |-> Strip(row.TSIN),
         name |-> PartName(part), dc |-> Strip(row.DC),
         qty_required |-> ParseQty(row.QtyRequired), qty_sending |-> qs,
         available |-> AvailableQty(al, part),
         calculated_soh |-> CalculatedSoh(AvailableQty(al, part), qs)]

UnmatchedItem(row) ==
    [sku |-> CleanSku(row.SKU), tsin |-> Strip(row.TSIN),
     product_title |-> CleanTitle(row.Title), dc |-> Strip(row.DC),
     qty_required |-> ParseQty(row.QtyRequired),
     qty_sending |-> ParseQty(row.QtySending)]

RowMatches(row) == MatchPart(CleanSku(row.SKU), CleanTitle(row.Title)) # NoPart

RECURSIVE ProcessMatched(_, _)
ProcessMatched(al, rows) ==
    IF rows = <<>> THEN <<>>
    ELSE IF RowMatches(Head(rows))
    THEN <<MatchedItem(al, Head(rows))>> \o ProcessMatched(al, Tail(rows))
    ELSE ProcessMatched(al, Tail(rows))

RECURSIVE ProcessUnmatched(_)
ProcessUnmatched(rows) ==
    IF rows = <<>> THEN <<>>
    ELSE IF RowMatches(Head(rows))
    THEN ProcessUnmatched(Tail(rows))
    ELSE <<UnmatchedItem(Head(rows))>> \o ProcessUnmatched(Tail(rows))


(***************************************************************************)
(* Session, requests and responses                                         *)
(***************************************************************************)
\* request.session without the "leadtime_order_sync_data" key
NoSession ==
    [populated |-> FALSE, matched_items |-> <<>>, unmatched_items |-> <<>>,
     target_date |-> ""]

\* save_sync_session
SaveSyncSession(matched_items, unmatched_items, target_date_str) ==
    [populated |-> TRUE, matched_items |-> matched_items,
     unmatched_items |-> unmatched_items, target_date |-> target_date_str]

ExpectedCols ==
    {"DC", "Product Label Number", "SKU", "TSIN", "Product Title",
     "Qty Sending", "Qty Required"}

\* validate_csv_columns
ValidateCsvColumns(fieldnames) == ExpectedCols \subseteq fieldnames

Today == "today"

IsoDates == {"2025-03-01"}

\* strptime(target_date_str, "%Y-%m-%d") if target_date_str else today; today on error
TargetDate(text) == IF text \in IsoDates THEN text ELSE Today

Req(kind, file, fieldnames, rows, target_date, post) ==
    [kind |-> kind, file |-> file, fieldnames |-> fieldnames, rows |-> rows,
     target_date |-> target_date, post |-> post]

NoPost == <<>>

PlainReq(kind) == Req(kind, "none", {}, <<>>, "", NoPost)

Resp(kind, success, status, error) ==
    [kind |-> kind, success |-> success, status |-> status, error |-> error,
     payload |-> <<>>, lines |-> 0]

NoResponse == Resp("none", FALSE, 0, "")

ErrNoFile == "Please upload a CSV file."
ErrRead == "Failed to read CSV file"
ErrColumns == "CSV file format is incorrect."
ErrNoData == "No data to process. Please upload a CSV first."
ErrNoCustomer == "Customer 'TakeALot' not found in database."
ErrOrder == "Failed to create Sales Order"
ErrLines == "Error creating order line items"
ErrNoSyncData == "No data to sync. Please upload a CSV first."
ErrNotReady == "This functionality is not yet ready for production"

(***************************************************************************)
(* Inputs                                                                  *)
(***************************************************************************)
Row(sku, title, qs, qr) ==
    [DC |-> <<"J">>, SKU |-> sku, TSIN |-> <<"7">>, Title |-> title,
     QtySending |-> qs, QtyRequired |-> qr]

SkuCells == {<<>>, <<"k">>, <<" ", "\"", "M", "\"">>, <<"z">>}

TitleCells == {<<"N">>, <<"\"", "t", "\"", " ">>, <<"q">>}

QtyCells == {<<>>, <<"2">>, <<"-", "1">>, <<"x">>, <<" ", "3">>}

\* Every combination of cells: the inputs of the CSV-processing specification.
AllRows ==
    {Row(sku, title, qs, qr) :
        sku \in SkuCells, title \in TitleCells, qs \in QtyCells, qr \in {<<"1">>, <<"x">>}}

\* The row the order-creation specifications upload: part 1, two to send.
OrderRows == {Row(<<"k">>, <<"q">>, <<"2">>, <<"1">>)}

\* The same, and a row of part 2 with a negative Qty Sending.
SignedRows ==
    OrderRows \cup {Row(<<" ", "\"", "M", "\"">>, <<"N">>, <<"-", "1">>, <<"x">>)}

RowSeqs(pool, n) == UNION {[1..k -> pool] : k \in 0..n}

DateTexts == {"", "2025-03-01"}

\* The target date of the uploads of the order-creation specification.
OrderDates == {"2025-03-01"}

OverrideTexts == {<<"3">>, <<"-", "2">>, <<"x">>}

\* request.POST of sync-stock: no soh_part_<pk> field, or one part's
Posts == UNION {[D -> OverrideTexts] : D \in {{}} \cup {{p} : p \in Parts}}

Workers == {1, 2}


(***************************************************************************)
(* State after construction                                                *)
(***************************************************************************)
Db(o, sh, li, al) == [orders |-> o, shipments |-> sh, lines |-> li, allocs |-> al]

Idle ==
    [pc |-> "idle", order |-> 0, target_date |-> "", location_obj |-> NoLocation,
     items |-> <<>>, i |-> 0, line |-> ForeignLine, stock_qs |-> <<>>,
     allocate_qty |-> 0, pre_alloc |-> 0, alloc_qty |-> 0, before |-> Db({}, {}, <<>>, <<>>)]

Quiet == \A w \in Workers : co[w].pc = "idle"

\* No request is being handled and the last response has been delivered.
Ready == Quiet /\ response = NoResponse

Alloc(line, item, quantity, shipment) ==
    [line |-> line, item |-> item, quantity |-> quantity, shipment |-> shipment]

\* Commitments of other orders found in the database: at most each lot's quantity.
RECURSIVE ForeignAllocs(_, _)
ForeignAllocs(n, c) ==
    IF n = 0 THEN <<>>
    ELSE IF c[n] > 0
    THEN Append(ForeignAllocs(n - 1, c), Alloc(ForeignLine, n, c[n], 0))
    ELSE ForeignAllocs(n - 1, c)

\* What other orders hold when the plugin starts: nothing, or part or all of lot 2.
ForeignCommitments ==
    {c \in [Lots -> 0..MaxForeign] :
        /\ \A l \in Lots : c[l] <= LotQuantity(l)
        /\ \A l \in Lots \ {2} : c[l] = 0}

Init ==
    /\ session = NoSession
    /\ orders = {}
    /\ shipments = {}
    /\ lines = <<>>
    /\ \E c \in ForeignCommitments : allocs = ForeignAllocs(Cardinality(Lots), c)
    /\ nextOrder = 1
    /\ customer \in BOOLEAN
    /\ setting \in {0, 1, 9}
    /\ co = [w \in Workers |-> Idle]
    /\ request = PlainReq("none")
    /\ response = NoResponse

Catalogue == <<customer, setting>>

Records == <<orders, shipments, lines, allocs, nextOrder>>

(***************************************************************************)
(* interface: the upload page                                              *)
(***************************************************************************)
\* GET: clear_sync_session, render the empty page
InterfaceGet ==
    /\ Ready
    /\ request' = PlainReq("GET /")
    /\ session' = NoSession
    /\ response' = Resp("page", TRUE, 200, "")
    /\ UNCHANGED <<Records, Catalogue, co>>

\* Mutant: the session is cleared on a POST without a file, as it is on GET.
InterfacePostNoFile_ClearsSession ==
    /\ Ready
    /\ request' = Req("POST /", "none", {}, <<>>, "", NoPost)
    /\ response' = Resp("page", FALSE, 200, ErrNoFile)
    /\ session' = NoSession
    /\ UNCHANGED <<Records, Catalogue, co>>

\* POST without a file
InterfacePostNoFile ==
    /\ Ready
    /\ request' = Req("POST /", "none", {}, <<>>, "", NoPost)
    /\ response' = Resp("page", FALSE, 200, ErrNoFile)
    /\ UNCHANGED <<session, Records, Catalogue, co>>

\* POST of a file that does not decode as UTF-8
InterfacePostUndecodable ==
    /\ Ready
    /\ request' = Req("POST /", "undecodable", {}, <<>>, "", NoPost)
    /\ response' = Resp("page", FALSE, 200, ErrRead)
    /\ UNCHANGED <<session, Records, Catalogue, co>>

\* POST of a CSV file: the header check, process_csv_rows, save_sync_session
InterfacePostCsv(pool, dates, n) ==
    /\ Ready
    /\ \E d \in dates, rows \in RowSeqs(pool, n),
          fieldnames \in {ExpectedCols, ExpectedCols \ {"TSIN"}} :
          /\ request' = Req("POST /", "csv", fieldnames, rows, d, NoPost)
          /\ IF ValidateCsvColumns(fieldnames)
             THEN /\ session' = SaveSyncSession(ProcessMatched(allocs, rows),
                                                ProcessUnmatched(rows), d)
                  /\ response' = Resp("page", TRUE, 200, "")
             ELSE /\ session' = session
                  /\ response' = Resp("page", FALSE, 200, ErrColumns)
    /\ UNCHANGED <<Records, Catalogue, co>>

(***************************************************************************)
(* create_order, one database operation per step                           *)
(***************************************************************************)
\* order.delete(): the order and, by cascade, its shipment, lines and allocations
DeleteOrder(db, pk) ==
    Db({o \in db.orders : o.pk # pk},
       {sh \in db.shipments : sh.order # pk},
       SelectSeq(db.lines, LAMBDA li : li.order # pk),
       SelectSeq(db.allocs, LAMBDA a : a.line[1] # pk))

Now == Db(orders, shipments, lines, allocs)

\* objects.create: a table holds its rows by order, each order's rows in the
\* sequence they were created; `above` counts the rows of later orders.
Create(table, row, above) ==
    LET n == Len(table) - above
    IN  SubSeq(table, 1, n) \o <<row>> \o SubSeq(table, n + 1, Len(table))

LinesAbove(pk) == Len(SelectSeq(lines, LAMBDA li : li.order > pk))

AllocsAbove(pk) == Len(SelectSeq(allocs, LAMBDA a : a.line[1] > pk))

SetDb(db) ==
    /\ orders' = db.orders
    /\ shipments' = db.shipments
    /\ lines' = db.lines
    /\ allocs' = db.allocs

Return(w, resp) ==
    /\ co' = [co EXCEPT ![w] = Idle]
    /\ response' = resp

\* except Exception: order.delete(); return the 500 response
RollBack(w) ==
    /\ SetDb(DeleteOrder(Now, co[w].order))
    /\ Return(w, Resp("json", FALSE, 500, ErrLines))

\* Lines 161-206: the session and customer checks, SalesOrder.objects.create.
\* A request goes to the first idle worker.
CreateOrderBegin(w, concurrent) ==
    /\ co[w].pc = "idle"
    /\ response = NoResponse
    /\ IF concurrent
       THEN /\ w = 1 \/ co[1].pc # "idle"
            /\ nextOrder <= MaxConcOrders
       ELSE /\ Quiet /\ w = 1
            /\ nextOrder <= MaxOrders
    /\ request' = PlainReq("create-order")
    /\ UNCHANGED <<session, Catalogue, shipments, lines, allocs>>
    /\ IF ~session.populated
       THEN /\ response' = Resp("json", FALSE, 400, ErrNoData)
            /\ UNCHANGED <<orders, nextOrder, co>>
       ELSE IF ~customer
       THEN /\ response' = Resp("json", FALSE, 400, ErrNoCustomer)
            /\ UNCHANGED <<orders, nextOrder, co>>
       ELSE \/ /\ response' = Resp("json", FALSE, 500, ErrOrder)
               /\ UNCHANGED <<orders, nextOrder, co>>
            \/ /\ response' = NoResponse
               /\ orders' = orders \cup
                     {[pk |-> nextOrder, target_date |-> TargetDate(session.target_date)]}
               /\ nextOrder' = nextOrder + 1
               /\ co' = [co EXCEPT ![w] =
                     [Idle EXCEPT !.pc = "shipment", !.order = nextOrder,
                         !.target_date = TargetDate(session.target_date),
                         !.items = session.matched_items, !.before = Now]]

\* Lines 209-216: the location lookup and SalesOrderShipment.objects.create,
\* both outside the try block: a failure here propagates out of the view.
CreateShipment(w) ==
    /\ co[w].pc = "shipment"
    /\ UNCHANGED <<session, Catalogue, request, orders, lines, allocs, nextOrder>>
    /\ \/ /\ Return(w, Resp("exception", FALSE, 500, "SalesOrderShipment"))
          /\ UNCHANGED shipments
       \/ /\ shipments' = shipments \cup
                {[order |-> co[w].order, delivery_date |-> co[w].target_date]}
          /\ co' = [co EXCEPT ![w].pc = "item", ![w].i = 1,
                       ![w].location_obj = LocationObj(setting)]
          /\ UNCHANGED response


Line(pk, order, part, item) ==
    [pk |-> pk, order |-> order, part |-> part, quantity |-> item.qty_required,
     note_dc |-> item.dc, note_qty_sending |-> item.qty_sending]

\* Lines 220-238: Part.objects.get, SalesOrderLineItem.objects.create, the
\* allocate_qty / location check and the stock query
CreateLine(w) ==
    /\ co[w].pc = "item"
    /\ co[w].i <= Len(co[w].items)
    /\ UNCHANGED <<session, Catalogue, request, nextOrder>>
    /\ \/ RollBack(w)
       \/ LET item == co[w].items[co[w].i]
              pk == <<co[w].order, co[w].i>>
          IN  /\ lines' = Create(lines, Line(pk, co[w].order, item.part, item),
                                       LinesAbove(co[w].order))
              /\ IF item.qty_sending <= 0 \/ co[w].location_obj = NoLocation
                 THEN co' = [co EXCEPT ![w].line = pk, ![w].i = @ + 1,
                                ![w].allocate_qty = item.qty_sending,
                                ![w].pre_alloc = 0, ![w].alloc_qty = 0]
                 ELSE co' = [co EXCEPT ![w].line = pk, ![w].pc = "lot",
                                ![w].allocate_qty = item.qty_sending,
                                ![w].stock_qs =
                                    LotSeq(LotsAt(item.part, co[w].location_obj))]
              /\ UNCHANGED <<orders, shipments, allocs, response>>

\* alloc_qty = available_qty if available_qty < allocate_qty else allocate_qty
AllocQty(available_qty, allocate_qty) ==
    IF available_qty < allocate_qty THEN available_qty ELSE allocate_qty

\* Lines 240-255: the next stock item, its allocations read, the quantity to allocate
ReadLot(w) ==
    /\ co[w].pc = "lot"
    /\ UNCHANGED <<session, Catalogue, request, Records, response>>
    /\ IF co[w].stock_qs = <<>> \/ co[w].allocate_qty <= 0
       THEN co' = [co EXCEPT ![w].pc = "item", ![w].i = @ + 1, ![w].stock_qs = <<>>,
                      ![w].pre_alloc = 0, ![w].alloc_qty = 0]
       ELSE LET stock_item == Head(co[w].stock_qs)
                pre_alloc == Committed(allocs, stock_item)
            IN  co' = [co EXCEPT ![w].pc = "alloc", ![w].pre_alloc = pre_alloc,
                          ![w].alloc_qty = AllocQty(AvailableOf(stock_item, pre_alloc),
                                                    co[w].allocate_qty)]

\* Mutant: the lot's allocations are read again when the allocation is written.
CreateAlloc_Revalidates(w) ==
    /\ co[w].pc = "alloc"
    /\ UNCHANGED <<session, Catalogue, request, nextOrder>>
    /\ \/ RollBack(w)
       \/ LET stock_item == Head(co[w].stock_qs)
              qty == AllocQty(AvailableOf(stock_item, Committed(allocs, stock_item)),
                              co[w].allocate_qty)
          IN  /\ allocs' = Create(allocs, Alloc(co[w].line, stock_item, qty, co[w].order),
                                        AllocsAbove(co[w].order))
              /\ co' = [co EXCEPT ![w].pc = "lot", ![w].stock_qs = Tail(@),
                           ![w].allocate_qty = @ - qty]
              /\ UNCHANGED <<orders, shipments, lines, response>>

\* Lines 257-260: SalesOrderAllocation.objects.create, allocate_qty -= alloc_qty
CreateAlloc(w) ==
    /\ co[w].pc = "alloc"
    /\ UNCHANGED <<session, Catalogue, request, nextOrder>>
    /\ \/ RollBack(w)
       \/ /\ allocs' = Create(allocs, Alloc(co[w].line, Head(co[w].stock_qs),
                                            co[w].alloc_qty, co[w].order),
                                    AllocsAbove(co[w].order))
          /\ co' = [co EXCEPT ![w].pc = "lot", ![w].stock_qs = Tail(@),
                       ![w].allocate_qty = @ - co[w].alloc_qty]
          /\ UNCHANGED <<orders, shipments, lines, response>>

\* order.lines.count()
LineCount(pk) == Len(SelectSeq(lines, LAMBDA li : li.order = pk))

\* Lines 269-278: the success response
CreateOrderReturn(w) ==
    /\ co[w].pc = "item"
    /\ co[w].i > Len(co[w].items)
    /\ Return(w, [Resp("json", TRUE, 200, "") EXCEPT !.lines = LineCount(co[w].order)])
    /\ UNCHANGED <<session, Catalogue, request, Records>>

(***************************************************************************)
(* sync_stock                                                              *)
(***************************************************************************)
\* LeadtimeOrderSyncPlugin.TAKEALOT_WAREHOUSE_ID: the assignment is commented
\* out, so reading the attribute raises AttributeError.
WarehouseIdDefined == FALSE

\* int(request.POST[field_name]); item["calculated_soh"] = max(new_soh, 0)
ApplyOverride(item, post) ==
    IF item.part \in DOMAIN post /\ PyInt(post[item.part]).ok
    THEN [item EXCEPT !.calculated_soh = Max(PyInt(post[item.part]).val, 0)]
    ELSE item

\* item.get("sku") or "", item.get("calculated_soh", 0)
PayloadEntry(item) ==
    [sku |-> item.sku, merchant_warehouse_id |-> "TAKEALOT_WAREHOUSE_ID",
     quantity |-> item.calculated_soh]

\* generate_batch_payload, and the same loop inlined in sync_stock
GenerateBatchPayload(items) == [k \in 1..Len(items) |-> PayloadEntry(items[k])]

\* Mutant: the overridden items are written back to the session.
StoredAfterSync_Saved(items) == [session EXCEPT !.matched_items = items]

\* item["calculated_soh"] = ... changes the items of this request's copy of the
\* session data; no key of request.session is assigned, so the stored session
\* is not written.
StoredAfterSync(items) == session

SyncStock ==
    /\ Ready
    /\ \E post \in Posts :
          /\ request' = Req("sync-stock", "none", {}, <<>>, "", post)
          /\ IF ~session.populated
             THEN response' = Resp("json", FALSE, 400, ErrNoSyncData)
             ELSE LET items == [k \in 1..Len(session.matched_items) |->
                                   ApplyOverride(session.matched_items[k], post)]
                  IN  IF items # <<>> /\ ~WarehouseIdDefined
                      THEN response' = Resp("exception", FALSE, 500, "AttributeError")
                      ELSE response' = [Resp("json", FALSE, 400, ErrNotReady)
                                           EXCEPT !.payload = GenerateBatchPayload(items)]
          /\ session' = StoredAfterSync(
                 [k \in 1..Len(session.matched_items) |->
                     ApplyOverride(session.matched_items[k], post)])
    /\ UNCHANGED <<Records, Catalogue, co>>

\* The response is delivered; the next request can be received.
Respond ==
    /\ Quiet
    /\ response # NoResponse
    /\ request' = PlainReq("none")
    /\ response' = NoResponse
    /\ UNCHANGED <<session, Records, Catalogue, co>>

(***************************************************************************)
(* Specifications                                                          *)
(***************************************************************************)
\* Requests handled one at a time.
Handle(pool) ==
    \/ InterfaceGet
    \/ InterfacePostNoFile
    \/ InterfacePostUndecodable
    \/ InterfacePostCsv(pool, OrderDates, MaxRows)
    \/ SyncStock
    \/ \E w \in Workers : CreateOrderBegin(w, FALSE)
    \/ \E w \in Workers : CreateShipment(w)
    \/ \E w \in Workers : CreateLine(w)
    \/ \E w \in Workers : ReadLot(w)
    \/ \E w \in Workers : CreateAlloc(w)
    \/ \E w \in Workers : CreateOrderReturn(w)
    \/ Respond

Next == Handle(OrderRows)

Spec == Init /\ [][Next]_vars

\* The same, with uploads that may hold a negative Qty Sending.
NextSigned == Handle(SignedRows)

SpecSigned == Init /\ [][NextSigned]_vars

\* create_order requests handled by two workers at once, with the customer
\* and the source location in place.
InitConc == Init /\ customer /\ setting = 1

NextConc ==
    \/ InterfacePostCsv(OrderRows, OrderDates, MaxConcRows)
    \/ \E w \in Workers : CreateOrderBegin(w, TRUE)
    \/ \E w \in Workers : CreateShipment(w)
    \/ \E w \in Workers : CreateLine(w)
    \/ \E w \in Workers : ReadLot(w)
    \/ \E w \in Workers : CreateAlloc(w)
    \/ \E w \in Workers : CreateOrderReturn(w)
    \/ Respond

SpecConc == InitConc /\ [][NextConc]_vars

\* CSV processing and stock sync over every combination of cells; each upload
\* is made from a freshly loaded page.
InitCsv == Init /\ customer /\ setting = 1

NextCsv ==
    \/ InterfaceGet
    \/ InterfacePostNoFile
    \/ InterfacePostUndecodable
    \/ (session = NoSession /\ InterfacePostCsv(AllRows, DateTexts, MaxRows))
    \/ SyncStock
    \/ Respond

SpecCsv == InitCsv /\ [][NextCsv]_vars


(***************************************************************************)
(* Properties                                                              *)
(***************************************************************************)
AllocsOfLine(al, pk) == SelectSeq(al, LAMBDA a : a.line = pk)

Min(a, b) == IF a < b THEN a ELSE b

\* C1: the allocation entries of every order line sum to at most the line's
\* qty_sending, and each entry, when it is created, is at most what its lot
\* has left (quantity minus the commitments already recorded, floored at 0).
C1_AllocationWithinRequest ==
    [][/\ \A k \in 1..Len(lines') :
             SumQty(AllocsOfLine(allocs', lines'[k].pk)) <= lines'[k].note_qty_sending
       /\ Len(allocs') = Len(allocs) + 1 =>
             LET a == allocs'[Len(allocs')]
             IN  a.quantity <= Max(LotQuantity(a.item) - Committed(allocs, a.item), 0)
      ]_vars

\* C2: a create_order call that fails after its order header was created
\* leaves the order records as they were before the call.
C2_FailureLeavesNoRecords ==
    [][\A w \in Workers :
          (co[w].pc # "idle" /\ co'[w].pc = "idle" /\ ~response'.success) =>
              Db(orders', shipments', lines', allocs') = co[w].before
      ]_vars

\* C3: with requests handled one at a time, no lot's committed quantity
\* exceeds the lot's quantity.
C3_NeverOverCommitted == \A l \in Lots : Committed(allocs, l) <= LotQuantity(l)

\* Two orders of the plugin hold allocations on a lot that is fully committed.
C3_Witness ==
    \E l \in Lots :
        /\ Committed(allocs, l) = LotQuantity(l)
        /\ \E i, j \in 1..Len(allocs) :
              /\ allocs[i].item = l /\ allocs[j].item = l
              /\ allocs[i].quantity > 0 /\ allocs[j].quantity > 0
              /\ allocs[i].shipment = 1 /\ allocs[j].shipment = 2

\* C4: nothing stands between a worker's read of a lot's allocations and its
\* write: the allocation written is the one computed from the commitments
\* the worker read, whatever the other worker has written since.
C4_WriteFromStaleRead ==
    [][\A w \in Workers :
          (co[w].pc = "alloc" /\ co'[w].pc = "lot") =>
              /\ Len(allocs') = Len(allocs) + 1
              /\ LET l == Head(co[w].stock_qs)
                     q == Min(Max(LotQuantity(l) - co[w].pre_alloc, 0),
                              co[w].allocate_qty)
                 IN  /\ AllocsOfLine(allocs', co[w].line) =
                           Append(AllocsOfLine(allocs, co[w].line),
                                  Alloc(co[w].line, l, q, co[w].order))
                     /\ \A k \in 1..Len(lines) : lines[k].pk # co[w].line =>
                           AllocsOfLine(allocs', lines[k].pk) =
                               AllocsOfLine(allocs, lines[k].pk)
      ]_vars

\* A lot committed beyond its quantity, by two orders each within what it read.
C4_OverCommitted ==
    \E l \in Lots :
        /\ Committed(allocs, l) > LotQuantity(l)
        /\ \A i \in 1..Len(allocs) : allocs[i].quantity <= LotQuantity(allocs[i].item)


\* The response to a CSV upload that was processed.
UploadDone == request.kind = "POST /" /\ request.file = "csv" /\ response.success

CodeMatches(row) == \E p \in Parts : IExact(PartIPN(p), CleanSku(row.SKU))

NameMatches(row) == \E p \in Parts : IExact(PartName(p), CleanTitle(row.Title))

Resolves(row) == CodeMatches(row) \/ NameMatches(row)

\* C5: every row resolves by part code first, by name when no code matches,
\* and is unmatched only when neither matches; the matched and unmatched
\* lists partition the rows and keep their order.
C5_MatchPriority ==
    UploadDone =>
        LET m == session.matched_items
            u == session.unmatched_items
            mr == SelectSeq(request.rows, Resolves)
            ur == SelectSeq(request.rows, LAMBDA r : ~Resolves(r))
        IN  /\ Len(m) = Len(mr)
            /\ Len(u) = Len(ur)
            /\ \A k \in 1..Len(mr) :
                  k <= Len(m) =>
                     /\ m[k].sku = CleanSku(mr[k].SKU)
                     /\ IF CodeMatches(mr[k])
                        THEN IExact(PartIPN(m[k].part), CleanSku(mr[k].SKU))
                        ELSE IExact(PartName(m[k].part), CleanTitle(mr[k].Title))
            /\ \A k \in 1..Len(ur) :
                  k <= Len(u) =>
                     /\ u[k].sku = CleanSku(ur[k].SKU)
                     /\ u[k].product_title = CleanTitle(ur[k].Title)

Numeric(text) == PyInt(text).ok

\* C6: sync_stock on a populated session answers with one payload entry per
\* matched item, in order, carrying the item's sku and the overridden
\* (floored at 0) or calculated stock-on-hand.
C6_PayloadRoundTrip ==
    (request.kind = "sync-stock" /\ session.populated) =>
        LET m == session.matched_items
            post == request.post
        IN  /\ Len(response.payload) = Len(m)
            /\ \A k \in 1..Len(m) :
                  k <= Len(response.payload) =>
                     /\ response.payload[k].sku = m[k].sku
                     /\ response.payload[k].quantity =
                           IF m[k].part \in DOMAIN post /\ Numeric(post[m[k].part])
                           THEN Max(PyInt(post[m[k].part]).val, 0)
                           ELSE m[k].calculated_soh

CommittedOn(al, S) == SumQty(SelectSeq(al, LAMBDA a : a.item \in S))

\* C7: for every matched row, available is the quantity of the part's
\* in-stock lots minus the commitments against them, floored at 0, and
\* calculated_soh is available minus qty_sending, floored at 0.
C7_AvailabilitySnapshot ==
    UploadDone =>
        \A k \in 1..Len(session.matched_items) :
            LET it == session.matched_items[k]
                S == {l \in Lots : LotPart(l) = it.part /\ LotQuantity(l) > 0}
            IN  /\ it.available = Max(TotalQuantity(S) - CommittedOn(allocs, S), 0)
                /\ it.calculated_soh = Max(it.available - it.qty_sending, 0)
                /\ it.available >= 0
                /\ it.calculated_soh >= 0

\* A matched row of a part whose lots are committed beyond their quantity.
C7_Witness ==
    /\ UploadDone
    /\ \E k \in 1..Len(session.matched_items) :
          LET it == session.matched_items[k]
              S == {l \in Lots : LotPart(l) = it.part /\ LotQuantity(l) > 0}
          IN  /\ it.qty_sending > 0
              /\ it.available = 0
              /\ CommittedOn(allocs, S) > TotalQuantity(S)

FatalErrors == {ErrNoFile, ErrRead, ErrColumns, ErrNoData, ErrNoCustomer}

\* C8: a request answered with a fatal precondition error changes neither
\* the session nor the order records, and does not report success.
C8_FatalErrorsChangeNothing ==
    [][(response = NoResponse /\ response' # NoResponse
            /\ response'.error \in FatalErrors) =>
          /\ session' = session
          /\ UNCHANGED Records
          /\ ~response'.success
      ]_vars

\* create_order refused for want of a customer, with a populated session.
C8_Witness ==
    /\ response.error = ErrNoCustomer
    /\ request.kind = "create-order"
    /\ session.populated
    /\ session.matched_items # <<>>

\* C9: the quantities stored for every row are non-negative integers, and a
\* cell that does not parse is stored as 0.
C9_QuantitiesNonNegative ==
    UploadDone =>
        /\ Len(session.matched_items) + Len(session.unmatched_items) = Len(request.rows)
        /\ \A k \in 1..Len(session.matched_items) :
              /\ session.matched_items[k].qty_sending \in Nat
              /\ session.matched_items[k].qty_required \in Nat
        /\ \A k \in 1..Len(session.unmatched_items) :
              /\ session.unmatched_items[k].qty_sending \in Nat
              /\ session.unmatched_items[k].qty_required \in Nat

RECURSIVE SumBefore(_, _)
SumBefore(al, k) == IF k <= 1 THEN 0 ELSE al[k - 1].quantity + SumBefore(al, k - 1)

\* What lot l had left before the allocations `mine` were made.
AvailableBefore(l, mine) ==
    Max(LotQuantity(l) - (Committed(allocs, l) - Committed(mine, l)), 0)

RECURSIVE SumAvailableBefore(_, _)
SumAvailableBefore(S, mine) ==
    IF S = {} THEN 0
    ELSE LET x == CHOOSE y \in S : TRUE
         IN  AvailableBefore(x, mine) + SumAvailableBefore(S \ {x}, mine)

\* C10: once a line's allocation is finished, each of its entries took
\* min(what its lot had left, what was still unallocated), and the entries
\* total min(qty_sending, what the part's lots at the source location had left).
C10_GreedyComplete ==
    \A w \in Workers :
        (co[w].pc = "item" /\ co[w].line # ForeignLine
            /\ co[w].location_obj # NoLocation) =>
            LET item == co[w].items[co[w].i - 1]
                mine == AllocsOfLine(allocs, co[w].line)
                S == {l \in Lots : LotPart(l) = item.part
                                      /\ LotLocation(l) = co[w].location_obj}
            IN  /\ \A k \in 1..Len(mine) :
                      mine[k].quantity =
                          Min(AvailableBefore(mine[k].item, mine),
                              item.qty_sending - SumBefore(mine, k))
                /\ SumQty(mine) = Min(item.qty_sending, SumAvailableBefore(S, mine))

====
